---- MODULE Spec2Model ----
\* Model of server.js (OAuth2 login with Passport, express-session and JWT):
\* the in-memory user store, the two Passport verify callbacks, the session
\* (de)serializers, the login callback routes that issue a JWT, the two
\* authentication middlewares, the three API routes behind them, and logout.
EXTENDS Integers, Sequences, FiniteSets, TLC

\* ---------------------------------------------------------------- bounds
NumRequests == 2      \* login callback requests that can be in flight together
MaxUsers == 2         \* cap on the number of Map entries
MaxClock == 2         \* cap on the clock

\* config.jwt.expiresIn ('24h'), in clock ticks of 12 hours
expiresIn == 2

\* ---------------------------------------------------------------- values
Undefined == "undefined"
Null == "null"
Requests == 1..NumRequests
Sessions == {"s1"}
Providers == {"google", "github"}
Subjects == {"123", "456"}

\* a JavaScript value is falsy when it is undefined, null or ''
Falsy(v) == v \in {Undefined, Null, ""}

\* an optional array of {value: ...} objects: def = FALSE is `undefined`
NoArray == [def |-> FALSE, arr |-> <<>>]
Arr(s) == [def |-> TRUE, arr |-> s]

\* profiles handed to the verify callbacks by the provider strategies
Profile(id, emails, displayName, username, photos) ==
  [id |-> id, emails |-> emails, displayName |-> displayName,
   username |-> username, photos |-> photos]

ProfileShapes ==
  { Profile(Undefined, Arr(<<"a@x.com">>), "Ann", "ann", Arr(<<"pic">>)),
    Profile(Undefined, NoArray,            "Ann", "ann", Arr(<<"pic">>)),
    Profile(Undefined, Arr(<<>>),          "Ann", "ann", Arr(<<"pic">>)),
    Profile(Undefined, Arr(<<"a@x.com">>), Undefined, "ann", Arr(<<"pic">>)),
    Profile(Undefined, Arr(<<"a@x.com">>), "", "ann", Arr(<<"pic">>)),
    Profile(Undefined, Arr(<<"a@x.com">>), "Ann", "ann", NoArray) }

Profiles == { [p EXCEPT !.id = s] : p \in ProfileShapes, s \in Subjects }

\* provider credentials handed to the verify callbacks
Credentials == { [accessToken |-> "at1", refreshToken |-> "rt1"],
                 [accessToken |-> "at2", refreshToken |-> "rt2"] }

VARIABLES
  users,      \* const users = new Map(): entry k holds the value stored under key k
  clock,      \* the system clock (new Date(), Date.now())
  req,        \* the login callback requests in flight
  session,    \* per session id, the stored session: passport.user and jwtToken
  res,        \* the last response sent (status, body) and what the handler saw
  sres,       \* the session side of the request that res answers
  deser,      \* the last done(err, user) of passport.deserializeUser
  returned,   \* history: the ids that successful verify callbacks completed with
  memo        \* history: an earlier answer of the bearer gate

vars == <<users, clock, req, session, res, sres, deser, returned, memo>>

\* ---------------------------------------------------------------- store
\* crypto.randomUUID(): a fresh opaque id; ids are named by order of creation
randomUUID(us) == Len(us) + 1

\* users.set(newUser.id, newUser) for a key not yet present
usersSet(us, key, value) ==
  IF key = Len(us) + 1 THEN Append(us, value) ELSE [us EXCEPT ![key] = value]

\* the value `undefined` where a user object is expected
UndefinedUser ==
  [id |-> 0, googleId |-> Undefined, githubId |-> Undefined, email |-> Undefined,
   name |-> Undefined, avatar |-> Undefined, provider |-> Undefined,
   accessToken |-> Undefined, refreshToken |-> Undefined,
   createdAt |-> 0, lastLogin |-> 0]

\* users.get(id)
usersGet(us, id) == IF id \in DOMAIN us THEN us[id] ELSE UndefinedUser

\* Array.prototype.find over users.values(): of the keys K whose value
\* matches, the one inserted first; 0 when nothing matches
FindFirst(K) == IF K = {} THEN 0 ELSE CHOOSE k \in K : \A j \in K : k <= j

\* variants of the lookups: one that never finds the user, and one that
\* does not tell the providers apart
GoogleFindNone(us, profile) == 0

GitHubFindNone(us, profile) == 0

GoogleFindAnyProvider(us, profile) ==
  FindFirst({ k \in DOMAIN us :
                us[k].googleId = profile.id \/ us[k].githubId = profile.id })

\* variant: a lookup that also links a Google login to a stored identity
\* with the same e-mail address
GoogleFindByEmail(us, profile) ==
  FindFirst({ k \in DOMAIN us :
                \/ us[k].googleId = profile.id
                \/ /\ profile.emails.def /\ Len(profile.emails.arr) > 0
                   /\ us[k].email = profile.emails.arr[1] })

\* Array.from(users.values()).find(user => user.googleId === profile.id)
GoogleFind(us, profile) ==
  FindFirst({ k \in DOMAIN us : us[k].googleId = profile.id })

\* Array.from(users.values()).find(user => user.githubId === profile.id)
GitHubFind(us, profile) ==
  FindFirst({ k \in DOMAIN us : us[k].githubId = profile.id })

\* a[0].value on an optional array: throws a TypeError when a is undefined
\* or a[0] is undefined
FirstValueThrows(a) == ~a.def \/ Len(a.arr) = 0
FirstValue(a) == a.arr[1]

\* ---------------------------------------------------------------- session codec
\* passport.serializeUser((user, done) => done(null, user.id))
serializeUser(user) == [err |-> Null, key |-> user.id]

\* variants of the deserializer: one that hands out the user without the
\* provider credentials, and one that reports an unknown id as an error
deserializeUserStripped(us, id) ==
  [err |-> Null,
   user |-> IF id \in DOMAIN us
            THEN [us[id] EXCEPT !.accessToken = Undefined, !.refreshToken = Undefined]
            ELSE UndefinedUser]

deserializeUserStrict(us, id) ==
  IF id \in DOMAIN us THEN [err |-> Null, user |-> us[id]]
  ELSE [err |-> "User not found", user |-> UndefinedUser]

\* passport.deserializeUser((id, done) => done(null, users.get(id)))
deserializeUser(us, id) == [err |-> Null, user |-> usersGet(us, id)]

\* ---------------------------------------------------------------- token service
\* JSON.stringify leaves out a key whose value is undefined; reading a key
\* that is not there gives undefined
Absent == "<absent>"
\* variant: undefined written as null, as JSON.stringify does inside arrays
JsonWriteNull(v) == IF v = Undefined THEN Null ELSE v
JsonWrite(v) == IF v = Undefined THEN Absent ELSE v
JsonRead(v) == IF v = Absent THEN Undefined ELSE v

NoPayload == [id |-> 0, email |-> Absent, name |-> Absent, provider |-> Absent]

\* one space-separated part of a header: a plain word, or a string of the
\* three-part JWT form with its decoded content and the key that signed it
Word(w) == [kind |-> "word", w |-> w, payload |-> NoPayload,
            iat |-> 0, exp |-> 0, sig |-> ""]
UndefinedPart == [kind |-> "undefined", w |-> "", payload |-> NoPayload,
                  iat |-> 0, exp |-> 0, sig |-> ""]

Secret == "config.jwt.secret"

\* variant: a signer that gives the tokens of GitHub identities a longer life
jwtSignByProvider(user, secret, now) ==
  [kind |-> "jwt", w |-> "",
   payload |-> [id |-> user.id, email |-> JsonWrite(user.email),
                name |-> JsonWrite(user.name), provider |-> JsonWrite(user.provider)],
   iat |-> now,
   exp |-> now + (IF user.provider = "github" THEN expiresIn + 1 ELSE expiresIn),
   sig |-> secret]

\* jwt.sign({id, email, name, provider}, secret, {expiresIn}) at time now
jwtSign(user, secret, now) ==
  [kind |-> "jwt", w |-> "",
   payload |-> [id |-> user.id, email |-> JsonWrite(user.email),
                name |-> JsonWrite(user.name), provider |-> JsonWrite(user.provider)],
   iat |-> now, exp |-> now + expiresIn, sig |-> secret]

\* the claims object jwt.verify hands to its callback
NoClaims == [id |-> 0, email |-> Undefined, name |-> Undefined,
             provider |-> Undefined, iat |-> 0, exp |-> 0]
Claims(token) ==
  [id |-> token.payload.id, email |-> JsonRead(token.payload.email),
   name |-> JsonRead(token.payload.name),
   provider |-> JsonRead(token.payload.provider),
   iat |-> token.iat, exp |-> token.exp]

\* variant: a verification that still accepts a token at its expiry time
jwtVerifyInclusive(token, secret, now) ==
  IF token.kind = "undefined" \/ (token.kind = "word" /\ token.w = "")
  THEN [err |-> "jwt must be provided", decoded |-> NoClaims]
  ELSE IF token.kind # "jwt"
  THEN [err |-> "jwt malformed", decoded |-> NoClaims]
  ELSE IF token.sig # secret
  THEN [err |-> "invalid signature", decoded |-> NoClaims]
  ELSE IF now > token.exp
  THEN [err |-> "jwt expired", decoded |-> NoClaims]
  ELSE [err |-> Null, decoded |-> Claims(token)]

\* jwt.verify(token, secret, callback) at time now: callback(err, decoded)
jwtVerify(token, secret, now) ==
  IF token.kind = "undefined" \/ (token.kind = "word" /\ token.w = "")
  THEN [err |-> "jwt must be provided", decoded |-> NoClaims]
  ELSE IF token.kind # "jwt"
  THEN [err |-> "jwt malformed", decoded |-> NoClaims]
  ELSE IF token.sig # secret
  THEN [err |-> "invalid signature", decoded |-> NoClaims]
  ELSE IF now >= token.exp
  THEN [err |-> "jwt expired", decoded |-> NoClaims]
  ELSE [err |-> Null, decoded |-> Claims(token)]

\* ---------------------------------------------------------------- middleware
\* req.headers.authorization: absent, or a string given by its split(' ')
NoHeader == [present |-> FALSE, parts |-> <<>>]
Header(parts) == [present |-> TRUE, parts |-> parts]

\* if (authHeader): an absent header and the empty string are falsy
HeaderTruthy(h) == h.present /\ h.parts # <<Word("")>>

\* authHeader.split(' ')[1]
SplitSecond(h) == IF Len(h.parts) >= 2 THEN h.parts[2] ELSE UndefinedPart

\* a response: hdr and at are the header and the clock value the bearer gate
\* read (NoHeader and 0 for the other routes), user the req.user the handler
\* saw, ran whether the route handler ran
Response(route, status, body, hdr, at, user, ran) ==
  [route |-> route, status |-> status, body |-> body, hdr |-> hdr,
   at |-> at, user |-> user, ran |-> ran]
NoResponse == Response("", 0, "", NoHeader, 0, NoClaims, FALSE)

\* variant: a gate that answers 401 to a token that fails verification
authenticateJWT401(route, h, now) ==
  IF HeaderTruthy(h)
  THEN LET token == SplitSecond(h)
           v == jwtVerify(token, Secret, now)
       IN IF v.err # Null
          THEN Response(route, 401, "Token non valido", h, now, NoClaims, FALSE)
          ELSE Response(route, 200, "", h, now, v.decoded, TRUE)
  ELSE Response(route, 401, "Token di accesso richiesto", h, now, NoClaims, FALSE)

\* variant: a gate that answers with the message of the verification error
authenticateJWTReason(route, h, now) ==
  IF HeaderTruthy(h)
  THEN LET token == SplitSecond(h)
           v == jwtVerify(token, Secret, now)
       IN IF v.err # Null
          THEN Response(route, 403, v.err, h, now, NoClaims, FALSE)
          ELSE Response(route, 200, "", h, now, v.decoded, TRUE)
  ELSE Response(route, 401, "Token di accesso richiesto", h, now, NoClaims, FALSE)

\* variants: a gate that turns a token down once its identity has logged in
\* again, and a gate that turns down a token no session holds any more
authenticateJWTLatestLogin(route, h, now) ==
  IF HeaderTruthy(h)
  THEN LET token == SplitSecond(h)
           v == jwtVerify(token, Secret, now)
       IN IF v.err # Null \/ usersGet(users, v.decoded.id).lastLogin > v.decoded.iat
          THEN Response(route, 403, "Token non valido", h, now, NoClaims, FALSE)
          ELSE Response(route, 200, "", h, now, v.decoded, TRUE)
  ELSE Response(route, 401, "Token di accesso richiesto", h, now, NoClaims, FALSE)

authenticateJWTInSession(route, h, now) ==
  IF HeaderTruthy(h)
  THEN LET token == SplitSecond(h)
           v == jwtVerify(token, Secret, now)
       IN IF v.err # Null \/ (\A s \in DOMAIN session : session[s].jwtToken # token)
          THEN Response(route, 403, "Token non valido", h, now, NoClaims, FALSE)
          ELSE Response(route, 200, "", h, now, v.decoded, TRUE)
  ELSE Response(route, 401, "Token di accesso richiesto", h, now, NoClaims, FALSE)

\* variant: a gate that leaves the req.user of a logged-in session in place
authenticateJWTKeepSessionUser(route, h, now) ==
  IF HeaderTruthy(h)
  THEN LET token == SplitSecond(h)
           v == jwtVerify(token, Secret, now)
           logged == { s \in DOMAIN session : session[s].passportUser # 0 }
       IN IF v.err # Null
          THEN Response(route, 403, "Token non valido", h, now, NoClaims, FALSE)
          ELSE IF logged # {}
          THEN Response(route, 200, "", h, now,
                        Claims(session[CHOOSE s \in logged : TRUE].jwtToken), TRUE)
          ELSE Response(route, 200, "", h, now, v.decoded, TRUE)
  ELSE Response(route, 401, "Token di accesso richiesto", h, now, NoClaims, FALSE)

\* variant: a gate that treats a header without a token part as a missing one
authenticateJWTNeedsToken(route, h, now) ==
  IF HeaderTruthy(h) /\ SplitSecond(h) \notin {UndefinedPart, Word("")}
  THEN LET token == SplitSecond(h)
           v == jwtVerify(token, Secret, now)
       IN IF v.err # Null
          THEN Response(route, 403, "Token non valido", h, now, NoClaims, FALSE)
          ELSE Response(route, 200, "", h, now, v.decoded, TRUE)
  ELSE Response(route, 401, "Token di accesso richiesto", h, now, NoClaims, FALSE)

\* variant: a gate that only accepts the scheme word Bearer
authenticateJWTBearerOnly(route, h, now) ==
  IF HeaderTruthy(h)
  THEN LET token == SplitSecond(h)
           v == jwtVerify(token, Secret, now)
       IN IF v.err # Null \/ h.parts[1] # Word("Bearer")
          THEN Response(route, 403, "Token non valido", h, now, NoClaims, FALSE)
          ELSE Response(route, 200, "", h, now, v.decoded, TRUE)
  ELSE Response(route, 401, "Token di accesso richiesto", h, now, NoClaims, FALSE)

\* authenticateJWT in front of a handler: the response, or next() with req.user
authenticateJWT(route, h, now) ==
  IF HeaderTruthy(h)
  THEN LET token == SplitSecond(h)
           v == jwtVerify(token, Secret, now)
       IN IF v.err # Null
          THEN Response(route, 403, "Token non valido", h, now, NoClaims, FALSE)
          ELSE Response(route, 200, "", h, now, v.decoded, TRUE)
  ELSE Response(route, 401, "Token di accesso richiesto", h, now, NoClaims, FALSE)

\* ---------------------------------------------------------------- session gate
\* the request object after passport.session(): req.session, the
\* Authorization header and req.user
Request(sess, h, user) == [session |-> sess, hdr |-> h, user |-> user]

NoSession == [passportUser |-> 0, jwtToken |-> UndefinedPart]

\* variant: a session middleware that hands the handler the id alone
PassportSessionIdOnly(us, sess) ==
  IF sess.passportUser = 0 THEN UndefinedUser
  ELSE [UndefinedUser EXCEPT !.id = sess.passportUser]

\* passport.session(): req.user is what deserializeUser gives for the id the
\* session holds as passport.user; a session without one leaves req.user unset
PassportSession(us, sess) ==
  IF sess.passportUser = 0 THEN UndefinedUser
  ELSE deserializeUser(us, sess.passportUser).user

\* req.isAuthenticated(): req.user is set
isAuthenticated(rq) == rq.user # UndefinedUser

\* variant: a session gate that also lets a valid bearer token through
ensureAuthenticatedOrBearer(route, rq, now) ==
  IF isAuthenticated(rq)
     \/ (HeaderTruthy(rq.hdr) /\ jwtVerify(SplitSecond(rq.hdr), Secret, now).err = Null)
  THEN Response(route, 200, "", rq.hdr, now, NoClaims, TRUE)
  ELSE Response(route, 401, "Accesso non autorizzato", rq.hdr, now, NoClaims, FALSE)

\* variant: a session gate whose next() is not followed by a return, so that
\* the 401 is sent as well
ensureAuthenticatedNoReturn(route, rq, now) ==
  IF isAuthenticated(rq)
  THEN Response(route, 401, "Accesso non autorizzato", rq.hdr, now, NoClaims, TRUE)
  ELSE Response(route, 401, "Accesso non autorizzato", rq.hdr, now, NoClaims, FALSE)

\* ensureAuthenticated in front of a handler: next(), or the 401 response
ensureAuthenticated(route, rq, now) ==
  IF isAuthenticated(rq)
  THEN Response(route, 200, "", rq.hdr, now, NoClaims, TRUE)
  ELSE Response(route, 401, "Accesso non autorizzato", rq.hdr, now, NoClaims, FALSE)

\* the userProfile object that GET /api/profile answers with
userProfile(user) ==
  [id |-> user.id, name |-> user.name, email |-> user.email,
   avatar |-> user.avatar, provider |-> user.provider,
   createdAt |-> user.createdAt, lastLogin |-> user.lastLogin]

\* the session side of the request that res answers: the session the request
\* carried, the req.user that passport.session() set, and what the handlers
\* of /api/profile and /api/token put in the body
SessionSide(rq, profile, token) ==
  [session |-> rq.session, user |-> rq.user, profile |-> profile, token |-> token]
NoSessionSide ==
  SessionSide(Request(NoSession, NoHeader, UndefinedUser),
              userProfile(UndefinedUser), UndefinedPart)

\* an answer of the bearer gate together with the size of the store and the
\* principals of the sessions at the time it was given
Memo(r, us, ss) ==
  [res |-> r, users |-> Len(us), session |-> [s \in Sessions |-> ss[s].passportUser]]

\* ---------------------------------------------------------------- requests
\* the fields of a profile that name and address its owner
ProfileText(profile) ==
  [emails |-> profile.emails, displayName |-> profile.displayName,
   username |-> profile.username]
NoProfile == [emails |-> NoArray, displayName |-> Undefined, username |-> Undefined]
NoCredential == [accessToken |-> Undefined, refreshToken |-> Undefined]

\* a login callback request; cred and profile are the credentials and the
\* ProfileText of the profile its verify callback was called with, dones the
\* number of times that callback has called done
IdleReq == [pc |-> "idle", sid |-> Undefined, provider |-> Undefined,
            sub |-> Undefined, fresh |-> FALSE, user |-> 0,
            profile |-> NoProfile, cred |-> NoCredential, dones |-> 0]
NoDeser == [id |-> 0, known |-> FALSE, err |-> Null, user |-> UndefinedUser]
Pairs == Providers \X Subjects

Init ==
  /\ users = <<>>
  /\ clock = 0
  /\ req = [r \in Requests |-> IdleReq]
  /\ session = [s \in Sessions |-> NoSession]
  /\ res = NoResponse
  /\ sres = NoSessionSide
  /\ deser = NoDeser
  /\ returned = [q \in Pairs |-> {}]
  /\ memo = Memo(NoResponse, <<>>, [s \in Sessions |-> NoSession])

\* GET /auth/<provider>/callback arrives with the cookie of session sid:
\* passport.authenticate exchanges the code and fetches the profile of the
\* subject that consented (network I/O)
BeginCallback(c, sid, provider, sub) ==
  /\ req[c].pc = "idle"
  /\ req' = [req EXCEPT ![c] =
       [IdleReq EXCEPT !.pc = "exchange", !.sid = sid,
          !.provider = provider, !.sub = sub,
          !.fresh = returned[<<provider, sub>>] = {}]]
  /\ UNCHANGED <<users, clock, session, res, sres, deser, returned, memo>>

\* variant: a verify callback that swallows its error instead of calling done
DoneSwallowError(c, cred, profile, err, user) ==
  /\ req' = IF err = Null
            THEN [req EXCEPT ![c].pc = "verified",
                             ![c].user = user,
                             ![c].profile = ProfileText(profile),
                             ![c].cred = cred,
                             ![c].dones = @ + 1]
            ELSE [req EXCEPT ![c].profile = ProfileText(profile),
                             ![c].cred = cred]
  /\ returned' = IF err = Null
                 THEN [returned EXCEPT ![<<req[c].provider, req[c].sub>>] = @ \cup {user}]
                 ELSE returned

\* the done(err, user) of a verify callback called with cred and profile,
\* recorded on the request
Done(c, cred, profile, err, user) ==
  /\ req' = [req EXCEPT ![c].pc = IF err = Null THEN "verified" ELSE "error",
                        ![c].user = user,
                        ![c].profile = ProfileText(profile),
                        ![c].cred = cred,
                        ![c].dones = @ + 1]
  /\ returned' = IF err = Null
                 THEN [returned EXCEPT ![<<req[c].provider, req[c].sub>>] = @ \cup {user}]
                 ELSE returned

\* variants of the existingUser branch: one that leaves lastLogin alone, one
\* that copies the profile's display name whatever it is, and one that
\* refreshes the fields the profile supplies
updateExistingUserNoLastLogin(existingUser, cred, profile, now) ==
  [existingUser EXCEPT !.accessToken = cred.accessToken]

updateExistingUserCopyName(existingUser, cred, profile, now) ==
  [existingUser EXCEPT !.lastLogin = now, !.accessToken = cred.accessToken,
                       !.name = profile.displayName]

updateExistingUserRefresh(existingUser, cred, profile, now) ==
  [existingUser EXCEPT
     !.lastLogin = now, !.accessToken = cred.accessToken,
     !.name = IF Falsy(profile.displayName) THEN @ ELSE profile.displayName,
     !.email = IF FirstValueThrows(profile.emails) THEN @ ELSE FirstValue(profile.emails),
     !.avatar = IF FirstValueThrows(profile.photos) THEN @ ELSE FirstValue(profile.photos)]

\* further variants: one that keeps the stored access token, and one that
\* also stores the refresh token of the call
updateExistingUserKeepToken(existingUser, cred, profile, now) ==
  [existingUser EXCEPT !.lastLogin = now]

updateExistingUserSetRefresh(existingUser, cred, profile, now) ==
  [existingUser EXCEPT !.lastLogin = now, !.accessToken = cred.accessToken,
                       !.refreshToken = cred.refreshToken]

\* variant: one that stamps the identity as created anew
updateExistingUserRecreate(existingUser, cred, profile, now) ==
  [existingUser EXCEPT !.lastLogin = now, !.accessToken = cred.accessToken,
                       !.createdAt = now]

\* the existingUser branch of both verify callbacks:
\* existingUser.lastLogin = new Date(); existingUser.accessToken = accessToken
updateExistingUser(existingUser, cred, profile, now) ==
  [existingUser EXCEPT !.lastLogin = now, !.accessToken = cred.accessToken]

\* name: profile.displayName
GoogleName(profile) == profile.displayName

\* variant: the GitHub name without its fallback
GitHubNameNoFallback(profile) == profile.displayName

\* name: profile.displayName || profile.username
GitHubName(profile) ==
  IF Falsy(profile.displayName) THEN profile.username ELSE profile.displayName

\* variant: a verify callback that stores the identity under its id before
\* it reads the e-mail and the photo of the profile
GoogleVerifyStoreFirst(c, cred, profile, d) ==
  /\ req[c].pc = "exchange" /\ req[c].provider = "google"
  /\ profile.id = req[c].sub
  /\ GoogleFind(users, profile) = 0
  /\ FirstValueThrows(profile.emails) \/ FirstValueThrows(profile.photos)
  /\ Len(users) < MaxUsers
  /\ LET newUser ==
           [id |-> randomUUID(users),
            googleId |-> profile.id,
            githubId |-> Undefined,
            email |-> Undefined,
            name |-> GoogleName(profile),
            avatar |-> Undefined,
            provider |-> "google",
            accessToken |-> cred.accessToken,
            refreshToken |-> cred.refreshToken,
            createdAt |-> clock,
            lastLogin |-> clock]
     IN users' = usersSet(users, newUser.id, newUser)
  /\ Done(c, cred, profile, "TypeError", 0)
  /\ UNCHANGED <<clock, session, res, sres, deser, memo>>

\* GoogleStrategy verify callback: an async function without await, so the
\* whole body runs in one turn of the event loop; d is the time that passes
\* between the two new Date() of the newUser literal
GoogleVerify(c, cred, profile, d) ==
  /\ req[c].pc = "exchange" /\ req[c].provider = "google"
  /\ profile.id = req[c].sub
  /\ LET existingUser == GoogleFind(users, profile) IN
     IF existingUser # 0
     THEN /\ users' = [users EXCEPT ![existingUser] =
                         updateExistingUser(@, cred, profile, clock)]
          /\ clock' = clock
          /\ Done(c, cred, profile, Null, users[existingUser].id)
     ELSE IF FirstValueThrows(profile.emails) \/ FirstValueThrows(profile.photos)
     THEN /\ Done(c, cred, profile, "TypeError", 0)
          /\ UNCHANGED <<users, clock>>
     ELSE /\ clock + d <= MaxClock
          /\ Len(users) < MaxUsers
          /\ LET newUser ==
                   [id |-> randomUUID(users),
                    googleId |-> profile.id,
                    githubId |-> Undefined,
                    email |-> FirstValue(profile.emails),
                    name |-> GoogleName(profile),
                    avatar |-> FirstValue(profile.photos),
                    provider |-> "google",
                    accessToken |-> cred.accessToken,
                    refreshToken |-> cred.refreshToken,
                    createdAt |-> clock,
                    lastLogin |-> clock + d]
             IN /\ users' = usersSet(users, newUser.id, newUser)
                /\ clock' = clock + d
                /\ Done(c, cred, profile, Null, newUser.id)
  /\ UNCHANGED <<session, res, sres, deser, memo>>

\* GitHubStrategy verify callback
GitHubVerify(c, cred, profile, d) ==
  /\ req[c].pc = "exchange" /\ req[c].provider = "github"
  /\ profile.id = req[c].sub
  /\ LET existingUser == GitHubFind(users, profile) IN
     IF existingUser # 0
     THEN /\ users' = [users EXCEPT ![existingUser] =
                         updateExistingUser(@, cred, profile, clock)]
          /\ clock' = clock
          /\ Done(c, cred, profile, Null, users[existingUser].id)
     ELSE IF (profile.emails.def /\ FirstValueThrows(profile.emails))
             \/ FirstValueThrows(profile.photos)
     THEN /\ Done(c, cred, profile, "TypeError", 0)
          /\ UNCHANGED <<users, clock>>
     ELSE /\ clock + d <= MaxClock
          /\ Len(users) < MaxUsers
          /\ LET newUser ==
                   [id |-> randomUUID(users),
                    googleId |-> Undefined,
                    githubId |-> profile.id,
                    email |-> IF profile.emails.def
                              THEN FirstValue(profile.emails) ELSE Null,
                    name |-> GitHubName(profile),
                    avatar |-> FirstValue(profile.photos),
                    provider |-> "github",
                    accessToken |-> cred.accessToken,
                    refreshToken |-> cred.refreshToken,
                    createdAt |-> clock,
                    lastLogin |-> clock + d]
             IN /\ users' = usersSet(users, newUser.id, newUser)
                /\ clock' = clock + d
                /\ Done(c, cred, profile, Null, newUser.id)
  /\ UNCHANGED <<session, res, sres, deser, memo>>

\* after done(null, user): req.logIn serializes the user into the session, then
\* the route handler signs a token from req.user and keeps it in the session
LoginHandler(c, route) ==
  LET user == usersGet(users, req[c].user)
      token == jwtSign(user, Secret, clock)
  IN /\ session' = [session EXCEPT ![req[c].sid] =
          [passportUser |-> serializeUser(user).key, jwtToken |-> token]]
     /\ res' = Response(route, 302, "", NoHeader, 0, NoClaims, TRUE)
     /\ sres' = NoSessionSide
     /\ req' = [req EXCEPT ![c] = IdleReq]
     /\ UNCHANGED <<users, clock, deser, returned, memo>>

\* GET /auth/google/callback after a successful verify
GoogleCallback(c) ==
  /\ req[c].pc = "verified" /\ req[c].provider = "google"
  /\ LoginHandler(c, "/auth/google/callback")

\* GET /auth/github/callback after a successful verify
GitHubCallback(c) ==
  /\ req[c].pc = "verified" /\ req[c].provider = "github"
  /\ LoginHandler(c, "/auth/github/callback")

\* variant: an error treated like a refused login, with the failureRedirect
ErrorHandlerAsFailure(c) ==
  /\ req[c].pc = "error"
  /\ res' = Response("error", 302, "", NoHeader, 0, NoClaims, FALSE)
  /\ sres' = NoSessionSide
  /\ req' = [req EXCEPT ![c] = IdleReq]
  /\ UNCHANGED <<users, clock, session, deser, returned, memo>>

\* variant: an error handler that answers with the message of the error
ErrorHandlerMessage(c) ==
  /\ req[c].pc = "error"
  /\ res' = Response("error", 500,
                     "TypeError: Cannot read properties of undefined (reading '0')",
                     NoHeader, 0, NoClaims, FALSE)
  /\ sres' = NoSessionSide
  /\ req' = [req EXCEPT ![c] = IdleReq]
  /\ UNCHANGED <<users, clock, session, deser, returned, memo>>

\* app.use((err, req, res, next) => ...) after done(error, null)
ErrorHandler(c) ==
  /\ req[c].pc = "error"
  /\ res' = Response("error", 500, "Errore interno del server", NoHeader, 0,
                     NoClaims, FALSE)
  /\ sres' = NoSessionSide
  /\ req' = [req EXCEPT ![c] = IdleReq]
  /\ UNCHANGED <<users, clock, session, deser, returned, memo>>

\* passport.session() calls deserializeUser with the id a session carries
DeserializeUser(id) ==
  /\ LET d == deserializeUser(users, id)
     IN deser' = [id |-> id, known |-> id \in DOMAIN users,
                  err |-> d.err, user |-> d.user]
  /\ UNCHANGED <<users, clock, req, session, res, sres, returned, memo>>

\* the cookie of a request names a stored session or none
Cookies == {"none"} \cup Sessions
\* req.session: the stored session the cookie names, or a new empty one
SessionOf(ck) == IF ck \in Sessions THEN session[ck] ELSE NoSession
\* the request with cookie ck and Authorization header h, after passport.session()
Incoming(ck, h) ==
  Request(SessionOf(ck), h, PassportSession(users, SessionOf(ck)))

\* GET /api/protected; remember = FALSE keeps the earlier answer in memo
ApiProtected(ck, h, remember) ==
  /\ res' = authenticateJWT("/api/protected", h, clock)
  /\ sres' = SessionSide(Incoming(ck, h), userProfile(UndefinedUser), UndefinedPart)
  /\ memo' = IF remember THEN Memo(res', users, session) ELSE memo
  /\ UNCHANGED <<users, clock, req, session, deser, returned>>

\* GET /api/profile
ApiProfile(ck, h) ==
  /\ LET rq == Incoming(ck, h) IN
     /\ res' = ensureAuthenticated("/api/profile", rq, clock)
     /\ sres' = SessionSide(rq,
                  IF res'.ran THEN userProfile(rq.user) ELSE userProfile(UndefinedUser),
                  UndefinedPart)
  /\ UNCHANGED <<users, clock, req, session, deser, returned, memo>>

\* variant: a token route that signs a new token for req.user on every call
ApiTokenReissue(ck, h) ==
  /\ LET rq == Incoming(ck, h) IN
     /\ res' = ensureAuthenticated("/api/token", rq, clock)
     /\ sres' = SessionSide(rq, userProfile(UndefinedUser),
                  IF res'.ran THEN jwtSign(rq.user, Secret, clock)
                  ELSE UndefinedPart)
  /\ UNCHANGED <<users, clock, req, session, deser, returned, memo>>

\* GET /api/token
ApiToken(ck, h) ==
  /\ LET rq == Incoming(ck, h) IN
     /\ res' = ensureAuthenticated("/api/token", rq, clock)
     /\ sres' = SessionSide(rq, userProfile(UndefinedUser),
                  IF res'.ran THEN rq.session.jwtToken ELSE UndefinedPart)
  /\ UNCHANGED <<users, clock, req, session, deser, returned, memo>>

\* variant: a logout that also deletes the identity the session was logged
\* in as, when it is the last one stored
LogoutForgetUser(ck) ==
  /\ session' = IF ck \in Sessions THEN [session EXCEPT ![ck] = NoSession]
                ELSE session
  /\ users' = IF SessionOf(ck).passportUser = Len(users) /\ Len(users) > 0
              THEN SubSeq(users, 1, Len(users) - 1) ELSE users
  /\ res' = Response("/logout", 302, "", NoHeader, 0, NoClaims, TRUE)
  /\ sres' = SessionSide(Incoming(ck, NoHeader), userProfile(UndefinedUser),
                         UndefinedPart)
  /\ UNCHANGED <<clock, req, deser, returned, memo>>

\* variant: a logout that redirects and leaves the session as it is
LogoutKeepSession(ck) ==
  /\ res' = Response("/logout", 302, "", NoHeader, 0, NoClaims, TRUE)
  /\ sres' = SessionSide(Incoming(ck, NoHeader), userProfile(UndefinedUser),
                         UndefinedPart)
  /\ UNCHANGED <<users, clock, req, session, deser, returned, memo>>

\* GET /logout: req.logout removes passport.user from the session (nothing in
\* it can fail with the in-memory session store), req.session.destroy()
\* removes the session, and the browser is redirected; sres keeps the session
\* the request carried
Logout(ck) ==
  /\ session' = IF ck \in Sessions THEN [session EXCEPT ![ck] = NoSession]
                ELSE session
  /\ res' = Response("/logout", 302, "", NoHeader, 0, NoClaims, TRUE)
  /\ sres' = SessionSide(Incoming(ck, NoHeader), userProfile(UndefinedUser),
                         UndefinedPart)
  /\ UNCHANGED <<users, clock, req, deser, returned, memo>>

\* time passes
Tick ==
  /\ clock < MaxClock
  /\ clock' = clock + 1
  /\ UNCHANGED <<users, req, session, res, sres, deser, returned, memo>>

\* ---------------------------------------------------------------- specifications
\* the Authorization headers a caller can send: none, the empty string, a
\* lone word, a scheme with an empty or a garbage token, and a scheme with a
\* token the server issued or with a copy of it re-signed by the caller
IssuedTokens == { session[s].jwtToken : s \in Sessions } \ {UndefinedPart}
Resigned(t) == [t EXCEPT !.sig = "attacker", !.exp = MaxClock + 1]
Headers ==
  { NoHeader, Header(<<Word("")>>), Header(<<Word("Bearer")>>),
    Header(<<Word("Bearer"), Word("")>>),
    Header(<<Word("Bearer"), Word("garbage")>>) }
  \cup { Header(<<Word(s), t>>) : s \in {"Bearer", "Basic"}, t \in IssuedTokens }
  \cup { Header(<<Word("Bearer"), Resigned(t)>>) : t \in IssuedTokens }

\* the tokens a caller holds: the one in its session, the one /api/token
\* answered with, and the ones it has presented before
HeldTokens ==
  { t \in IssuedTokens
          \cup {sres.token, SplitSecond(res.hdr), SplitSecond(memo.res.hdr)} :
      t.kind = "jwt" }
\* no header, or a token the caller holds as a bearer token
BearerHeaders == {NoHeader} \cup { Header(<<Word("Bearer"), t>>) : t \in HeldTokens }

\* the login flow of the requests CS with the credentials CR, the profiles PS
\* and the delays DS
Login(CS, CR, PS, DS) ==
  \/ \E c \in CS, sid \in Sessions, p \in Providers, s \in {q.id : q \in PS} :
       BeginCallback(c, sid, p, s)
  \/ \E c \in CS, cred \in CR, profile \in PS, d \in DS :
       GoogleVerify(c, cred, profile, d)
  \/ \E c \in CS, cred \in CR, profile \in PS, d \in DS :
       GitHubVerify(c, cred, profile, d)
  \/ \E c \in CS : GoogleCallback(c)
  \/ \E c \in CS : GitHubCallback(c)
  \/ \E c \in CS : ErrorHandler(c)

OneRequest == {1}
OneCredential == { [accessToken |-> "at1", refreshToken |-> "rt1"] }
\* the complete profile and the profile without photos, for every subject
TwoShapes == { p \in Profiles : p.displayName = "Ann" /\ p.emails = Arr(<<"a@x.com">>) }
\* every profile shape, for one subject
OneSubject == { p \in Profiles : p.id = "123" }
\* the profile without a display name and the one without emails, for one subject
GateShapes == { p \in OneSubject : p.displayName = Undefined \/ p.emails = NoArray }

\* concurrent login callbacks
Next == Login(Requests, OneCredential, TwoShapes, {0})

Spec == Init /\ [][Next]_vars

\* one login at a time with every profile shape and credential, and the clock
NextProfile ==
  \/ Login(OneRequest, Credentials, OneSubject, {0, 1})
  \/ Tick

SpecProfile == Init /\ [][NextProfile]_vars

\* one login at a time, and sessions being deserialized
NextCodec ==
  \/ Login(OneRequest, OneCredential, TwoShapes, {0, 1})
  \/ \E id \in 0..(MaxUsers + 1) : DeserializeUser(id)

SpecCodec == Init /\ [][NextCodec]_vars

\* one login at a time, the clock, and callers of the JWT-protected route
NextGate ==
  \/ Login(OneRequest, OneCredential, GateShapes, {0})
  \/ \E h \in Headers : ApiProtected("none", h, FALSE)
  \/ Tick

SpecGate == Init /\ [][NextGate]_vars

\* one login at a time, logout, the clock, and callers of the three API
\* routes that send a session cookie, a bearer token, both or neither
NextRoutes ==
  \/ Login(OneRequest, OneCredential, TwoShapes \cap OneSubject, {0})
  \/ \E ck \in Cookies, h \in BearerHeaders : ApiProtected(ck, h, FALSE)
  \/ \E ck \in Cookies, h \in BearerHeaders : ApiProfile(ck, h)
  \/ \E ck \in Cookies, h \in BearerHeaders : ApiToken(ck, h)
  \/ \E ck \in Cookies : Logout(ck)
  \/ Tick

SpecRoutes == Init /\ [][NextRoutes]_vars

\* one login at a time, logout, the clock, and a caller that presents its
\* tokens to the JWT-protected route again and again
NextReplay ==
  \/ Login(OneRequest, OneCredential, TwoShapes \cap OneSubject, {0})
  \/ \E h \in BearerHeaders \ {NoHeader}, remember \in BOOLEAN :
       ApiProtected("s1", h, remember)
  \/ \E ck \in Sessions : Logout(ck)
  \/ Tick

SpecReplay == Init /\ [][NextReplay]_vars

\* ---------------------------------------------------------------- properties
\* the stored identities that carry subject s of provider p
Stored(p, s) ==
  { k \in DOMAIN users :
      IF p = "google" THEN users[k].googleId = s ELSE users[k].githubId = s }

\* C1: no two distinct stored identities carry the same googleId, and no two
\* carry the same githubId
C1_UniqueSubjectIds ==
  \A a, b \in DOMAIN users :
    a # b =>
      /\ users[a].googleId # Undefined => users[a].googleId # users[b].googleId
      /\ users[a].githubId # Undefined => users[a].githubId # users[b].githubId

\* two identities are stored and a returning login has found one of them
C1_Witness ==
  /\ Len(users) = 2
  /\ \E r \in Requests : req[r].pc = "verified" /\ ~req[r].fresh

\* a callback that has called done
Completed(r) == req[r].pc \in {"verified", "error"}

\* C2: when several callbacks for the same not-yet-stored (provider, subject)
\* are in flight together, the store ends with exactly one identity for the
\* pair and every one of the callbacks completes with that identity's id
C2_ConcurrentCallbacksOneIdentity ==
  \A r1, r2 \in Requests :
    ( /\ r1 # r2 /\ Completed(r1) /\ Completed(r2)
      /\ req[r1].fresh /\ req[r2].fresh
      /\ req[r1].provider = req[r2].provider /\ req[r1].sub = req[r2].sub )
    => /\ req[r1].pc = "verified" /\ req[r2].pc = "verified"
       /\ req[r1].user = req[r2].user
       /\ Stored(req[r1].provider, req[r1].sub) = {req[r1].user}

\* a successful verify step of request r
VerifySucceeds(r) == req[r].pc = "exchange" /\ req'[r].pc = "verified"

\* C3: all successful verify callbacks for one (provider, subject) complete
\* with the same id, and one that follows an earlier success adds no entry
C3_SameIdEveryCall ==
  /\ [](\A q \in Pairs : Cardinality(returned[q]) <= 1)
  /\ [][\A r \in Requests :
          (VerifySucceeds(r) /\ returned[<<req[r].provider, req[r].sub>>] # {})
          => /\ req'[r].user \in returned[<<req[r].provider, req[r].sub>>]
             /\ Len(users') = Len(users)]_vars

\* a second callback for a pair has completed with the id the first one got
C3_Witness ==
  \E r \in Requests :
    /\ req[r].pc = "verified" /\ ~req[r].fresh
    /\ returned[<<req[r].provider, req[r].sub>>] = {req[r].user}

\* C4: a Google login and a GitHub login never complete with the same
\* identity, also when both carry the same literal subject id; the identity a
\* login completes with is linked to that login's provider only
C4_ProvidersNeverCollide ==
  /\ \A s, t \in Subjects :
       returned[<<"google", s>>] \cap returned[<<"github", t>>] = {}
  /\ \A s \in Subjects :
       /\ \A k \in returned[<<"google", s>>] :
            users[k].googleId = s /\ users[k].githubId = Undefined
       /\ \A k \in returned[<<"github", s>>] :
            users[k].githubId = s /\ users[k].googleId = Undefined

\* the same literal subject id has logged in through both providers
C4_Witness ==
  \E s \in Subjects :
    returned[<<"google", s>>] # {} /\ returned[<<"github", s>>] # {}

\* C5: deserializing what serializeUser gives for a stored identity yields
\* that identity, field by field; what a session holds as its principal is
\* the id alone, and a deserialization of a stored id yields the user with
\* that id
C5_CodecRoundTrip ==
  /\ \A k \in DOMAIN users :
       LET s == serializeUser(users[k])
           d == deserializeUser(users, s.key)
       IN s.err = Null /\ d.err = Null /\ d.user = users[k] /\ d.user.id = k
  /\ \A sid \in Sessions :
       session[sid].passportUser # 0 =>
         /\ session[sid].passportUser \in DOMAIN users
         /\ session[sid].passportUser = session[sid].jwtToken.payload.id
  /\ deser.known => deser.user.id = deser.id

\* a session holds the id of a stored identity and that id was deserialized
C5_Witness ==
  \E sid \in Sessions :
    /\ session[sid].passportUser \in DOMAIN users
    /\ deser.known /\ deser.id = session[sid].passportUser
    /\ deser.user = users[deser.id]

\* C6: deserializing an id that is not a key of the store completes with no
\* error and an absent user
C6_UnknownIdIsAbsence ==
  ~deser.known => deser.err = Null /\ deser.user = UndefinedUser

\* an id that is not in the non-empty store was deserialized
C6_Witness ==
  /\ deser.id # 0 /\ ~deser.known
  /\ Len(users) >= 1 /\ deser.id \notin DOMAIN users

\* C7: no verify callback completes with an error, whatever optional profile
\* field is missing (the in-memory store itself cannot fail)
C7_NeverFailsOnMissingField ==
  \A r \in Requests : req[r].pc # "error"

\* the result of verifying the token of the header the gate read
GateVerdict == jwtVerify(SplitSecond(res.hdr), Secret, res.at)
Gated == res.route = "/api/protected"

\* C8 as stated: 401 exactly when the header is absent, 403 exactly when it
\* is present and its token fails verification, and no handler in either case
C8_Original ==
  Gated =>
    /\ res.status = 401 <=> ~res.hdr.present
    /\ res.status = 403 <=> (res.hdr.present /\ GateVerdict.err # Null)
    /\ res.status \in {401, 403} => ~res.ran

\* C8 amended: 401 exactly when the header is absent or the empty string,
\* 403 exactly when it is a non-empty string whose token fails verification,
\* and the handler runs in neither case
C8_MissingVersusInvalid ==
  Gated =>
    /\ res.status = 401 <=> (~res.hdr.present \/ res.hdr = Header(<<Word("")>>))
    /\ res.status = 403 <=>
         (res.hdr.present /\ res.hdr # Header(<<Word("")>>) /\ GateVerdict.err # Null)
    /\ res.status \in {401, 403} => ~res.ran

\* the gate has answered 403 to a header that carries a token
C8_Witness ==
  /\ Gated /\ res.status = 403 /\ ~res.ran
  /\ Len(res.hdr.parts) = 2 /\ res.hdr.parts[2].kind = "jwt"

\* the two failure kinds of a verification
Expired(r) ==
  r.route = "/api/protected" /\ HeaderTruthy(r.hdr)
  /\ jwtVerify(SplitSecond(r.hdr), Secret, r.at).err = "jwt expired"
MalformedOrForged(r) ==
  r.route = "/api/protected" /\ HeaderTruthy(r.hdr)
  /\ jwtVerify(SplitSecond(r.hdr), Secret, r.at).err
       \in {"jwt malformed", "invalid signature"}

\* C9 as stated: the response to an expired token and the response to a
\* malformed or forged token never have the same status and reason
C9_Original ==
  [][(Expired(res) /\ MalformedOrForged(res'))
       => <<res.status, res.body>> # <<res'.status, res'.body>>]_vars

\* C9 amended: an expired token and a malformed or forged token get the same
\* response, 403 'Token non valido', which differs from the 401 given when
\* there is no header
C9_ExpiredSameAsInvalid ==
  /\ (Expired(res) \/ MalformedOrForged(res))
       => res.status = 403 /\ res.body = "Token non valido" /\ ~res.ran
  /\ (Gated /\ ~res.hdr.present)
       => res.status = 401 /\ res.body = "Token di accesso richiesto"

\* the gate has answered a token that the server issued and that has expired
C9_Witness ==
  /\ Expired(res) /\ res.status = 403
  /\ SplitSecond(res.hdr) \in IssuedTokens

\* C10: a token signed by a login callback and presented before its lifetime
\* has elapsed is accepted, and the claims the handler sees carry the id,
\* email, name and provider of the identity it was issued for
C10_TokenRoundTrip ==
  LET token == SplitSecond(res.hdr) IN
  ( /\ Gated /\ HeaderTruthy(res.hdr)
    /\ token.kind = "jwt" /\ token.sig = Secret
    /\ res.at < token.iat + expiresIn )
  => /\ res.status = 200 /\ res.ran
     /\ res.user.id \in DOMAIN users
     /\ res.user.id = users[res.user.id].id
     /\ res.user.email = users[res.user.id].email
     /\ res.user.name = users[res.user.id].name
     /\ res.user.provider = users[res.user.id].provider
     /\ res.user.iat = token.iat /\ res.user.exp = token.iat + expiresIn

\* a token was accepted one tick after it was issued
C10_Witness ==
  /\ Gated /\ res.status = 200 /\ res.ran
  /\ res.user.id \in DOMAIN users
  /\ res.at = res.user.iat + 1

\* C11: a token the server signed is accepted exactly while
\* issuedAt <= now < expiresAt: at a clock value equal to expiresAt, and at
\* any later one, it is rejected with 403 and the handler does not run
C11_HalfOpenLifetime ==
  LET token == SplitSecond(res.hdr) IN
  ( /\ Gated /\ HeaderTruthy(res.hdr)
    /\ token.kind = "jwt" /\ token.sig = Secret )
  => /\ (res.status = 200 /\ res.ran) <=> (token.iat <= res.at /\ res.at < token.exp)
     /\ res.at >= token.exp => (res.status = 403 /\ ~res.ran)
     /\ res.at = token.exp - 1 => (res.status = 200 /\ res.ran)

\* a token the server signed was presented at exactly its expiry time
C11_Witness ==
  /\ Gated /\ HeaderTruthy(res.hdr)
  /\ SplitSecond(res.hdr).kind = "jwt" /\ SplitSecond(res.hdr).sig = Secret
  /\ res.at = SplitSecond(res.hdr).exp /\ res.status = 403

\* a request to a route behind ensureAuthenticated has just been answered
SessionGated == res.route \in {"/api/profile", "/api/token"}
Answered == <<res, sres>>' # <<res, sres>>

\* C12: ensureAuthenticated runs the handler exactly when the session of the
\* request holds the id of an identity in the store, the handler then sees
\* the whole stored identity as req.user, and every other request is
\* answered 401 'Accesso non autorizzato' without the handler
C12_SessionGate ==
  [][(SessionGated' /\ Answered) =>
       LET id == sres'.session.passportUser IN
       /\ res'.ran <=> id \in DOMAIN users
       /\ res'.ran => (res'.status = 200 /\ sres'.user = users[id])
       /\ ~res'.ran => /\ res'.status = 401
                       /\ res'.body = "Accesso non autorizzato"
                       /\ sres'.profile = userProfile(UndefinedUser)
                       /\ sres'.token = UndefinedPart]_vars

\* the handler of /api/profile ran for a logged-in session and saw the stored
\* identity, provider credentials included
C12_Witness ==
  /\ res.route = "/api/profile" /\ res.ran
  /\ sres.session.passportUser \in DOMAIN users
  /\ sres.user.id = sres.session.passportUser
  /\ sres.user.accessToken = "at1" /\ sres.profile.email = "a@x.com"

\* C14: /api/protected is never authorized by a session alone, and
\* /api/profile and /api/token are never authorized by a bearer token alone:
\* a request with an authenticated session and no Authorization header gets
\* 401 from /api/protected, and a request with a token that verifies but no
\* authenticated session gets 401 from /api/profile and /api/token
C14_OneGatePerRoute ==
  /\ (Gated /\ sres.user # UndefinedUser /\ ~res.hdr.present)
       => (~res.ran /\ res.status = 401)
  /\ ( /\ SessionGated /\ sres.user = UndefinedUser
       /\ HeaderTruthy(res.hdr)
       /\ jwtVerify(SplitSecond(res.hdr), Secret, res.at).err = Null )
       => (~res.ran /\ res.status = 401)

\* /api/token was asked with a token that verifies and without a session
C14_Witness ==
  /\ res.route = "/api/token" /\ sres.user = UndefinedUser
  /\ jwtVerify(SplitSecond(res.hdr), Secret, res.at).err = Null
  /\ res.status = 401

\* the principals the sessions hold
Principals == [s \in Sessions |-> session[s].passportUser]
\* the remembered answer was given to the header that res answers
SameHeader == Gated /\ memo.res.route = "/api/protected" /\ memo.res.hdr = res.hdr

\* C13: two answers of the bearer gate to the same header at the same clock
\* value are the same answer (status, body, claims, handler run), whatever
\* the store and the sessions held when each was given, and a request to
\* /api/protected changes neither the store nor the sessions
C13_GateReadsHeaderAndClockOnly ==
  /\ []((SameHeader /\ memo.res.at = res.at) => memo.res = res)
  /\ [][(Gated' /\ Answered) => (users' = users /\ session' = session)]_vars

\* one header was accepted twice at one clock value, once with a logged-in
\* session and a smaller store, once after logout with a larger store
C13_Witness ==
  /\ SameHeader /\ memo.res.at = res.at /\ res.status = 200
  /\ memo.users < Len(users)
  /\ memo.session["s1"] # 0 /\ Principals["s1"] = 0

\* C15: a token that the bearer gate accepted is accepted again, with the
\* same claims, whenever it is presented before its expiresAt, also after
\* the session it was issued in has logged out and after later logins have
\* updated the identity
C15_TokenOutlivesSession ==
  (SameHeader /\ memo.res.status = 200 /\ res.at < memo.res.user.exp)
  => (res.status = 200 /\ res.ran /\ res.user = memo.res.user)

\* a token accepted while its session was logged in is accepted at a later
\* time, after a logout and after a later login has updated its identity
C15_Witness ==
  /\ SameHeader /\ memo.res.status = 200 /\ res.status = 200
  /\ memo.res.at < res.at
  /\ memo.session["s1"] = res.user.id /\ Principals["s1"] = 0
  /\ users[res.user.id].lastLogin > res.user.iat

\* a successful verify step of request r that found an existing identity, and
\* one that created a new identity
Returning(r) == VerifySucceeds(r) /\ Len(users') = Len(users)
Created(r) == VerifySucceeds(r) /\ Len(users') = Len(users) + 1

\* C16: a login that finds an existing identity never replaces its email,
\* name or avatar by an empty or null value, and a field the returning
\* profile lacks or supplies empty keeps its stored value
C16_NeverEmptied ==
  [][\A r \in Requests :
       Returning(r) =>
         LET k == req'[r].user
             p == req'[r].profile
         IN /\ users'[k].email # users[k].email => ~Falsy(users'[k].email)
            /\ users'[k].name # users[k].name => ~Falsy(users'[k].name)
            /\ users'[k].avatar # users[k].avatar => ~Falsy(users'[k].avatar)
            /\ Falsy(p.displayName) => users'[k].name = users[k].name
            /\ FirstValueThrows(p.emails) => users'[k].email = users[k].email]_vars

\* an identity named "Ann" has logged in again with an empty display name
C16_Witness ==
  \E r \in Requests :
    /\ req[r].pc = "verified" /\ ~req[r].fresh
    /\ req[r].profile.displayName = ""
    /\ users[req[r].user].name = "Ann"

\* C17: the lastLogin of an identity never decreases and is never earlier
\* than its createdAt, and every successful verify callback, first login or
\* later one, leaves the lastLogin of its identity at the current time
C17_LastLoginMonotone ==
  /\ [](\A k \in DOMAIN users : users[k].createdAt <= users[k].lastLogin)
  /\ [][\A k \in DOMAIN users : users[k].lastLogin <= users'[k].lastLogin]_vars
  /\ [][\A r \in Requests :
          VerifySucceeds(r) => users'[req'[r].user].lastLogin = clock']_vars

\* an identity has logged in again at a time later than its creation
C17_Witness ==
  \E r \in Requests :
    /\ req[r].pc = "verified" /\ ~req[r].fresh
    /\ users[req[r].user].lastLogin = clock
    /\ users[req[r].user].createdAt < clock

\* the two callbacks of different users have both called done
BothCompleted(r1, r2) ==
  /\ r1 # r2 /\ Completed(r1) /\ Completed(r2)
  /\ req[r1].fresh /\ req[r2].fresh
  /\ <<req[r1].provider, req[r1].sub>> # <<req[r2].provider, req[r2].sub>>
\* request r completed with a stored identity that holds what r was called with
HoldsItsOwn(r) ==
  /\ req[r].pc = "verified" /\ req[r].user \in DOMAIN users
  /\ LET u == users[req[r].user] IN
     /\ Stored(req[r].provider, req[r].sub) = {req[r].user}
     /\ u.provider = req[r].provider
     /\ u.name \in {req[r].profile.displayName, req[r].profile.username}
     /\ u.email = IF FirstValueThrows(req[r].profile.emails) THEN Null
                  ELSE FirstValue(req[r].profile.emails)
     /\ u.accessToken = req[r].cred.accessToken

\* C18: two login callbacks in flight together for different (provider,
\* subject) pairs, neither stored before, both complete with a stored
\* identity, the two identities are different entries, and each holds the
\* subject id, the profile fields and the access token of its own callback
C18_ConcurrentLoginsKeepApart ==
  \A r1, r2 \in Requests :
    BothCompleted(r1, r2)
    => /\ HoldsItsOwn(r1) /\ HoldsItsOwn(r2)
       /\ req[r1].user # req[r2].user

\* C19 as stated: for either provider, the name of an identity created from
\* a profile without a display name is taken from another identifying field
\* of the profile, and is empty only when the profile has no such field
C19_Original ==
  [][\A r \in Requests :
       (Created(r) /\ Falsy(req'[r].profile.displayName))
       => LET name == users'[req'[r].user].name
              p == req'[r].profile
          IN Falsy(name) => (Falsy(p.username) /\ FirstValueThrows(p.emails))]_vars

\* C19 amended: the name of a new GitHub identity is the display name of the
\* profile, or its username when the display name is undefined or empty;
\* the name of a new Google identity is the display name as given
C19_GitHubNameFallsBack ==
  [][\A r \in Requests :
       Created(r)
       => LET name == users'[req'[r].user].name
              p == req'[r].profile
          IN name = IF req'[r].provider = "github" /\ Falsy(p.displayName)
                    THEN p.username ELSE p.displayName]_vars

\* a GitHub identity created from a profile without a display name is named
\* after the username
C19_Witness ==
  \E r \in Requests :
    /\ req[r].pc = "verified" /\ req[r].fresh /\ req[r].provider = "github"
    /\ Falsy(req[r].profile.displayName)
    /\ users[req[r].user].name = "ann"

\* C20 as stated: a login that finds an existing identity stores the display
\* name and the email of the returning profile when they are not empty and
\* differ from the stored ones (every stored avatar is the one photo a
\* profile can carry)
C20_Original ==
  [][\A r \in Requests :
       Returning(r) =>
         LET k == req'[r].user
             p == req'[r].profile
         IN /\ (~Falsy(p.displayName) /\ p.displayName # users[k].name)
                 => users'[k].name = p.displayName
            /\ (~FirstValueThrows(p.emails) /\ FirstValue(p.emails) # users[k].email)
                 => users'[k].email = FirstValue(p.emails)]_vars

\* C20 amended: a login that finds an existing identity leaves the email,
\* the name and the avatar of every stored identity as they are, whatever
\* the returning profile supplies
C20_FieldsKept ==
  [][\A r \in Requests :
       Returning(r) =>
         \A k \in DOMAIN users :
           /\ users'[k].email = users[k].email
           /\ users'[k].name = users[k].name
           /\ users'[k].avatar = users[k].avatar]_vars

\* an identity has logged in again with a display name that is not empty
\* and is not its stored name
C20_Witness ==
  \E r \in Requests :
    /\ req[r].pc = "verified" /\ ~req[r].fresh
    /\ ~Falsy(req[r].profile.displayName)
    /\ users[req[r].user].name # req[r].profile.displayName

\* C21: after a verify callback that found an existing identity, the
\* lastLogin of that identity is the time of the call, its accessToken is
\* the access token the call was given, and its provider field names the
\* provider the call came through
C21_ReturningLoginUpdates ==
  [][\A r \in Requests :
       Returning(r) =>
         LET u == users'[req'[r].user] IN
         /\ u.lastLogin = clock
         /\ u.accessToken = req'[r].cred.accessToken
         /\ u.provider = req[r].provider]_vars

\* an identity created with the first credentials has logged in again, at a
\* later time, with the second ones
C21_Witness ==
  \E r \in Requests :
    /\ req[r].pc = "verified" /\ ~req[r].fresh
    /\ req[r].cred.accessToken = "at2"
    /\ users[req[r].user].accessToken = "at2"
    /\ users[req[r].user].refreshToken = "rt1"
    /\ users[req[r].user].createdAt < users[req[r].user].lastLogin

\* C22 as stated: after every successful verify callback the refreshToken of
\* its identity is the refresh token the call was given
C22_Original ==
  [][\A r \in Requests :
       VerifySucceeds(r)
       => users'[req'[r].user].refreshToken = req'[r].cred.refreshToken]_vars

\* C22 amended: a new identity stores the refresh token its call was given,
\* and no later step changes the refreshToken of a stored identity
C22_FirstRefreshTokenKept ==
  /\ [][\A r \in Requests :
          Created(r)
          => users'[req'[r].user].refreshToken = req'[r].cred.refreshToken]_vars
  /\ [][\A k \in DOMAIN users :
          users'[k].refreshToken = users[k].refreshToken]_vars

\* an identity that holds the first refresh token has logged in again with
\* the second one
C22_Witness ==
  \E r \in Requests :
    /\ req[r].pc = "verified" /\ ~req[r].fresh
    /\ req[r].cred.refreshToken = "rt2"
    /\ users[req[r].user].refreshToken = "rt1"

\* C23: the createdAt and the lastLogin of a newly created identity are the
\* same instant
C23_CreatedAtIsFirstLogin ==
  [][\A r \in Requests :
       Created(r)
       => users'[req'[r].user].createdAt = users'[req'[r].user].lastLogin]_vars

\* C24: every entry of the store keeps its id, its createdAt and its
\* provider subject ids through every step (logins, requests to the three
\* API routes with their session deserialization, token issuance, logout),
\* an entry is stored under its own id, and a newly created identity gets an
\* id that no stored identity has
C24_IdentityKeysImmutable ==
  /\ [](\A k \in DOMAIN users : users[k].id = k)
  /\ [][\A k \in DOMAIN users :
          /\ k \in DOMAIN users'
          /\ users'[k].id = users[k].id
          /\ users'[k].createdAt = users[k].createdAt
          /\ users'[k].googleId = users[k].googleId
          /\ users'[k].githubId = users[k].githubId]_vars
  /\ [][\A r \in Requests :
          Created(r) => \A k \in DOMAIN users : users[k].id # req'[r].user]_vars

\* two identities are stored, one has logged in again after its creation,
\* and its session has logged out
C24_Witness ==
  /\ Len(users) = 2
  /\ \E k \in DOMAIN users : users[k].createdAt < users[k].lastLogin
  /\ res.route = "/logout" /\ sres.user # UndefinedUser
  /\ session["s1"] = NoSession

\* the routes that sign a token
CallbackRoutes == {"/auth/google/callback", "/auth/github/callback"}

\* C25: every token a session holds, and every token /api/token answers
\* with, expires expiresIn after it was issued, whichever provider the login
\* came through; the token of a session changes only when a login callback
\* signs a new one at the current time or when the session is destroyed, and
\* /api/token answers with the stored token as it is
C25_FixedLifetime ==
  /\ [](/\ \A s \in Sessions :
             session[s].jwtToken # UndefinedPart
             => session[s].jwtToken.exp = session[s].jwtToken.iat + expiresIn
        /\ sres.token # UndefinedPart => sres.token.exp = sres.token.iat + expiresIn)
  /\ [][\A s \in Sessions :
          session'[s].jwtToken # session[s].jwtToken
          => \/ session'[s].jwtToken = UndefinedPart
             \/ /\ res'.route \in CallbackRoutes
                /\ session'[s].jwtToken.iat = clock]_vars
  /\ [][(res'.route = "/api/token" /\ res'.ran /\ Answered)
          => (sres'.token = sres'.session.jwtToken /\ session' = session)]_vars

\* /api/token has answered with the token of a GitHub login that was not the
\* first login, some time after it was issued
C25_Witness ==
  /\ res.route = "/api/token" /\ res.ran
  /\ sres.token.payload.provider = "github"
  /\ sres.token.iat >= 1 /\ res.at > sres.token.iat
  /\ sres.token.exp = sres.token.iat + expiresIn

\* C26: when the bearer gate lets a request through, the req.user the
\* handler of /api/protected sees is the claims decoded from the token of the
\* header; when the request also carries a session logged in as another
\* identity, the handler does not see that identity
C26_HandlerSeesClaimsOnly ==
  (Gated /\ res.status = 200)
  => /\ res.ran
     /\ res.user = Claims(SplitSecond(res.hdr))
     /\ (sres.user # UndefinedUser /\ sres.user.id # SplitSecond(res.hdr).payload.id)
          => res.user.id # sres.user.id

\* the gate accepted the token of one identity on a request whose session is
\* logged in as another identity
C26_Witness ==
  /\ Gated /\ res.status = 200
  /\ sres.user # UndefinedUser
  /\ sres.user.id # res.user.id
  /\ res.user.id = SplitSecond(res.hdr).payload.id

\* C27: a verify callback that has been called with a profile has called
\* done exactly once, either done(null, identity) with a stored identity or
\* done(error, null), whatever the profile is
C27_DoneExactlyOnce ==
  \A r \in Requests :
    /\ req[r].dones <= 1
    /\ req[r].profile # NoProfile => (req[r].dones = 1 /\ Completed(r))
    /\ req[r].pc = "verified" => req[r].user \in DOMAIN users
    /\ req[r].pc = "error" => req[r].user = 0

\* the GitHub callback was called with an empty emails array and has called
\* done(error, null) once
C27_Witness ==
  \E r \in Requests :
    /\ req[r].pc = "error" /\ req[r].provider = "github"
    /\ req[r].profile.emails = Arr(<<>>)
    /\ req[r].dones = 1 /\ req[r].user = 0

\* C28: a request whose verify callback completed with an error is answered
\* 500 'Errore interno del server' without its route handler, and neither
\* the failing callback nor that answer changes a session: no principal is
\* established and no token is stored
C28_VerifyErrorIsServerError ==
  /\ [][\A r \in Requests :
          (req[r].pc = "error" /\ req'[r].pc = "idle")
          => /\ res'.status = 500
             /\ res'.body = "Errore interno del server"
             /\ ~res'.ran
             /\ session' = session]_vars
  /\ [][\A r \in Requests :
          (req[r].pc = "exchange" /\ req'[r].pc = "error")
          => session' = session]_vars

\* a failed login was answered 500 and the session holds neither a principal
\* nor a token
C28_Witness ==
  /\ res.route = "error" /\ res.status = 500
  /\ session["s1"] = NoSession
  /\ \A r \in Requests : req[r].pc = "idle"

\* a request to /logout has just been answered
LogoutAnswered == res'.route = "/logout" /\ Answered

\* C29: a logout leaves the store as it is and destroys the session the
\* request carried; a session without a principal stays so until a login
\* callback, and every request to /api/profile or /api/token that carries it
\* is answered 401; a later login of a provider subject that logged in
\* before completes with the id it completed with before and adds no entry
C29_LogoutKeepsIdentity ==
  /\ [][LogoutAnswered
          => /\ users' = users
             /\ \A s \in Sessions :
                  (sres'.session # NoSession /\ session[s] = sres'.session)
                  => session'[s] = NoSession]_vars
  /\ []((SessionGated /\ sres.session.passportUser = 0)
          => (res.status = 401 /\ ~res.ran))
  /\ [][\A s \in Sessions :
          (session[s].passportUser = 0 /\ session'[s].passportUser # 0)
          => res'.route \in CallbackRoutes]_vars
  /\ [][\A r \in Requests :
          (VerifySucceeds(r) /\ ~req[r].fresh)
          => /\ req'[r].user \in returned[<<req[r].provider, req[r].sub>>]
             /\ users'[req'[r].user].id = req'[r].user
             /\ Len(users') = Len(users)]_vars

\* after a logout the session was answered 401, and the next login of the
\* same subject has found the identity it had
C29_Witness ==
  /\ session["s1"] = NoSession
  /\ SessionGated /\ res.status = 401 /\ sres.session = NoSession
  /\ \E r \in Requests :
       /\ req[r].pc = "verified" /\ ~req[r].fresh
       /\ returned[<<req[r].provider, req[r].sub>>] = {req[r].user}
       /\ users[req[r].user].id = req[r].user

\* a header that is a non-empty string but has no token: a single word, or a
\* scheme followed by a space and nothing else
NoTokenPart(h) ==
  /\ h.present /\ h # Header(<<Word("")>>)
  /\ \/ Len(h.parts) = 1
     \/ (Len(h.parts) = 2 /\ h.parts[2] = Word(""))

\* C30: a non-empty Authorization header without a token part is answered
\* 403 'Token non valido': not 401, not a server error, and the handler does
\* not run
C30_NoTokenPartIsInvalid ==
  (Gated /\ NoTokenPart(res.hdr))
  => (res.status = 403 /\ res.body = "Token non valido" /\ ~res.ran)

\* the gate has answered the header 'Bearer'
C30_Witness ==
  /\ Gated /\ res.hdr = Header(<<Word("Bearer")>>)
  /\ res.status = 403 /\ ~res.ran

\* C31: a request answered by one of the two gates has exactly one outcome:
\* either the gate called next(), the handler ran and no rejection was sent,
\* or the gate sent one rejection (401 or 403 with its message) and the
\* handler did not run
C31_OneOutcomePerGate ==
  (Gated \/ SessionGated)
  => \/ (res.ran /\ res.status = 200 /\ res.body = "")
     \/ (~res.ran /\ res.status \in {401, 403} /\ res.body # "")

\* the session gate has let a request to /api/token through
C31_Witness ==
  /\ res.route = "/api/token" /\ res.ran /\ res.status = 200
  /\ sres.token # UndefinedPart

\* the constant message for a rejection with the given status on a route
RejectionBody(route, status) ==
  IF route = "/api/protected" /\ status = 401 THEN "Token di accesso richiesto"
  ELSE IF route = "/api/protected" /\ status = 403 THEN "Token non valido"
  ELSE IF route \in {"/api/profile", "/api/token"} /\ status = 401
  THEN "Accesso non autorizzato"
  ELSE "Errore interno del server"

\* C32: the body of every rejection of the two gates and of the error
\* handler is the constant message of its route and status, whatever the
\* token, the verification error, the session and the store are
C32_ConstantRejectionBodies ==
  res.status \in {401, 403, 500}
  => /\ res.body = RejectionBody(res.route, res.status)
     /\ res.user = NoClaims

\* the bearer gate has rejected the expired token of a stored identity
C32_Witness ==
  /\ Gated /\ res.status = 403 /\ res.body = "Token non valido"
  /\ SplitSecond(res.hdr).payload.id \in DOMAIN users
  /\ SplitSecond(res.hdr).sig = Secret

\* done(error, null) has been called on request r
VerifyFails(r) == req[r].pc = "exchange" /\ req'[r].pc = "error"

\* C33: a verify callback that completes with an error leaves the user store
\* exactly as it was: nothing is inserted and no stored identity is changed
C33_FailedVerifyKeepsStore ==
  [][\A r \in Requests : VerifyFails(r) => users' = users]_vars

\* a Google verify callback has failed while a GitHub identity is stored
C33_Witness ==
  \E r \in Requests :
    /\ req[r].pc = "error" /\ req[r].provider = "google"
    /\ Len(users) = 1 /\ users[1].provider = "github"

\* the header of the answered request has two parts, the second one a token
\* the server signed that has not expired when the gate read the clock
ValidSecondPart ==
  LET token == SplitSecond(res.hdr) IN
  /\ res.hdr.present /\ Len(res.hdr.parts) = 2
  /\ token.kind = "jwt" /\ token.sig = Secret /\ res.at < token.exp

\* C34: the bearer gate does not look at the scheme word: a header whose
\* second part is a valid unexpired token is authorized with the claims of
\* that token, whether its first part is 'Bearer', 'Basic' or anything else
C34_SchemeWordIgnored ==
  (Gated /\ ValidSecondPart)
  => /\ res.status = 200 /\ res.ran
     /\ res.user = Claims(SplitSecond(res.hdr))

\* the gate has authorized a header 'Basic <token>'
C34_Witness ==
  /\ Gated /\ ValidSecondPart
  /\ res.hdr.parts[1] = Word("Basic")
  /\ res.status = 200 /\ res.ran

\* GET /api/token has been answered by its handler
TokenReturned == res.route = "/api/token" /\ res.ran

\* C35: the token of an authenticated session carries the id of the identity
\* the session is logged in as; /api/token returns exactly the token stored
\* in the session, never a newly signed one, so once the lifetime has elapsed
\* since the login the token it returns is one the bearer gate rejects
C35_StoredTokenReturned ==
  /\ \A s \in Sessions :
       (session[s].passportUser # 0 /\ session[s].jwtToken # UndefinedPart)
       => session[s].jwtToken.payload.id = session[s].passportUser
  /\ TokenReturned
     => /\ sres.token = sres.session.jwtToken
        /\ sres.token.payload.id = sres.user.id
  /\ (TokenReturned /\ res.at >= sres.token.iat + expiresIn)
     => LET gate == authenticateJWT("/api/protected",
                                    Header(<<Word("Bearer"), sres.token>>), res.at)
        IN gate.status = 403 /\ ~gate.ran

\* /api/token has returned the token of a session that is still logged in,
\* after the lifetime of the token has elapsed
C35_Witness ==
  /\ TokenReturned /\ sres.token.kind = "jwt"
  /\ res.at >= sres.token.exp
  /\ session["s1"].jwtToken = sres.token /\ session["s1"].passportUser # 0

\* the (provider, subject id) pairs a verify callback has completed for
\* without an error
Reconciled == { q \in Pairs : returned[q] # {} }

\* C36: the user store only grows: no step removes an entry, every entry is
\* stored under the key equal to its own id, and the number of entries is
\* the number of distinct (provider, subject id) pairs that a verify
\* callback has reconciled successfully
C36_StoreOnlyGrows ==
  /\ [](\A k \in DOMAIN users : users[k].id = k)
  /\ [](Len(users) = Cardinality(Reconciled))
  /\ [][/\ Len(users') >= Len(users)
        /\ \A k \in DOMAIN users : k \in DOMAIN users' /\ users'[k].id = k]_vars

\* two pairs are stored, a returning login has added nothing, and a logout
\* has been answered
C36_Witness ==
  /\ Len(users) = 2 /\ Cardinality(Reconciled) = 2
  /\ res.route = "/logout"
  /\ \E r \in Requests : req[r].pc = "verified" /\ ~req[r].fresh

\* the stored identity k is linked to provider p and to no other one
LinkedTo(k, p) ==
  /\ users[k].provider = p
  /\ (users[k].googleId # Undefined) <=> (p = "google")
  /\ (users[k].githubId # Undefined) <=> (p = "github")

\* C37: every stored identity is linked to exactly one provider, by googleId
\* or by githubId, never both and never neither, and its provider field
\* names that provider; logins through both providers end with two separate
\* identities, one per provider, also when both profiles carry the same
\* e-mail address
C37_OneProviderPerIdentity ==
  /\ \A k \in DOMAIN users : LinkedTo(k, "google") \/ LinkedTo(k, "github")
  /\ \A s, t \in Subjects :
       \A a \in returned[<<"google", s>>], b \in returned[<<"github", t>>] :
         a # b /\ LinkedTo(a, "google") /\ LinkedTo(b, "github")

\* a Google identity and a GitHub identity with the same e-mail address are
\* both stored
C37_Witness ==
  \E a, b \in DOMAIN users :
    /\ users[a].provider = "google" /\ users[b].provider = "github"
    /\ users[a].email = users[b].email /\ users[a].email # Null
    /\ \E s, t \in Subjects :
         a \in returned[<<"google", s>>] /\ b \in returned[<<"github", t>>]
====
